---- MODULE Spec2Model ----
(***************************************************************************)
(* Model of DeltaX-AI-Lab/rtsp_connection.                                 *)
(*                                                                         *)
(* The repository holds three entry scripts over the same decoder          *)
(* (cv2.VideoCapture):                                                     *)
(*   multi : run_ffmpeg_oop_multi.py  (sequential RTSPstreamer, reconnect) *)
(*   way1  : run_ffmpeg_oop_multi_thread_report_way1.py (RTSPStreamer with *)
(*           a capture thread per source and a latest-frame slot)          *)
(*   way2  : run_ffmpeg_oop_multi_thread_report_way2.py (VideoStream: the  *)
(*           decoder is opened and the thread started by the constructor)  *)
(* and two clients that hold one connection object and call its methods:   *)
(*   conn   : one RTSPStreamer (connect_server, release)                   *)
(*   stream : one VideoStream (constructor, stop)                          *)
(* The variable prog says which of them a behaviour runs.  The decoder is  *)
(* the environment: every open and every read draws its outcome from the   *)
(* outcomes cv2 can produce (a frame, no frame, an exception).             *)
(***************************************************************************)
EXTENDS Integers, Sequences, FiniteSets, TLC

\* ------------------------------------------------------------------ bounds
\* Sources configured in the sequential script (the script lists 7 URLs).
NumSources == 2
\* Decoder handles the environment lets one source open in a behaviour.
MaxOpens == 2
\* Sources configured in the threaded script (the script lists 5 URLs).
NumThreaded == 1
\* Frames the decoder delivers for one source in a behaviour.
MaxFrames == 2
\* Calls the client of a single connection makes in a behaviour.
MaxCalls == 3
\* Frames of one stream the way2 script shows (and counts) in a behaviour.
MaxShown == 2

\* --------------------------------------------------------- program constants
\* try_times of every run()/connect_server() call.
TryTimes == 2
\* URLs that are not commented out in rtsp_urls of the way2 script.
NumStreams == 1

Src == 1..NumSources
None == 0

VARIABLES
  prog,      \* the entry script of this behaviour
  ncfg,      \* number of sources the script is configured with (rtsp_urls)
  pc,        \* position of the main thread
  cap,       \* [Src -> handle | None]        self.cap
  hcl,       \* [Src -> Seq(Nat)]  decoder: close() calls per opened handle
  active,    \* Seq(Src)                      active_streamers
  cur,       \* the streamer the main thread is working on
  idx,       \* position of a for-loop over all streamers (startup, cleanup)
  it,        \* index of the list iterator of the poll loop's for
  attempt,   \* loop variable of the connect retry loop
  ctx,       \* caller of the running call: "startup"|"poll"|"cleanup"|"client"
  crashed,   \* a source ended the process: an exception escaped main, or exit()
  polled,    \* [Src -> Nat]  reads of the source in the current poll iteration
  removals,  \* [Src -> Nat]  active_streamers.remove(streamer) calls
  connRet,   \* [Src -> "none"|"running"|"true"|"false"] the last connect call
  callBase,  \* handles the source had opened when the last connect call began
  runRet,    \* [Src -> "none"|"true"|"false"] last return of run()
  tries,     \* decoder opens attempted by the last connect call
  lastRead,  \* [Src -> "none"|"ok"|"fail"|"exc"] last decoder read of the source
  \* --- the threaded script (way1) only
  fst,       \* [Src -> time | None]          self.first_start_time
  frame_count,       \* [Src -> Nat]          self.frame_count
  latest_frame,      \* [Src -> frame | None] self.latest_frame
  latest_timestamp,  \* [Src -> time | None]  self.latest_timestamp
  lock,      \* [Src -> BOOLEAN]              self.lock is held
  stopped,   \* [Src -> BOOLEAN]              self.stopped
  thread,    \* [Src -> thread | None]        self.thread
  thr,       \* [Src -> Seq(thread record)]   the capture threads ever started
  captured,  \* [Src -> Nat]  frames the decoder has delivered for the source
  owned,     \* [Src -> SUBSET Nat]  handles that have been stored in self.cap
  clk,       \* [Src -> Nat]  time.time() values handed to the source's code
  seen,      \* [Src -> frame | None] frame the poll loop last got from the slot
  lcap,      \* local `cap` of connect_server
  lframe,    \* local `frame` of connect_server / process_streamers
  ltime,     \* local `frame_time` of process_streamers
  snap,      \* the copy active_streamers[:] the poll loop iterates over
  calls,     \* calls made so far by the client of one connection
  pairs,     \* [Src -> SUBSET (frame \X time)] what each publish wrote together
  report     \* [Src -> "fps" | "failed" | "none"] the line the final report printed

w1Vars == <<fst, frame_count, latest_frame, latest_timestamp, lock, stopped,
            thread, thr, captured, owned, clk, seen, lcap, lframe, ltime, snap,
            calls, pairs, report>>

vars == <<prog, ncfg, pc, cap, hcl, active, cur, idx, it, attempt, ctx, crashed,
          polled, removals, connRet, callBase, runRet, tries, lastRead,
          fst, frame_count, latest_frame, latest_timestamp, lock, stopped,
          thread, thr, captured, owned, clk, seen, lcap, lframe, ltime, snap,
          calls, pairs, report>>

\* ----------------------------------------------------------------- decoder
\* cv2.VideoCapture(url): a new handle of source s, numbered in open order.
DecoderOpen(h) == Append(h, 0)

\* cap.release() on handle k of a source: one more close() call on it.
DecoderClose(h, k) == [h EXCEPT ![k] = @ + 1]

IsOpen(h, k) == k \in 1..Len(h) /\ h[k] = 0

OpenHandles(s) == {k \in 1..Len(hcl[s]) : hcl[s][k] = 0}

\* Outcomes of one connect attempt: cv2.VideoCapture(url) then cap.read().
\*   "openexc"  the constructor raises                 (no handle)
\*   "openfail" the capture does not open, read gives (False, None)
\*   "readexc"  the capture opens, read raises
\*   "readfail" the capture opens, read gives (False, None)
\*   "ok"       the capture opens, read gives a frame
AttemptOutcomes(s) ==
  IF Len(hcl[s]) < MaxOpens
  THEN {"openexc", "openfail", "readexc", "readfail"}
         \cup (IF captured[s] < MaxFrames THEN {"ok"} ELSE {})
  ELSE {"openexc", "openfail"}

\* Outcomes of cap.read() on the handle self.cap of source s.
ReadOutcomes(s) ==
  IF IsOpen(hcl[s], cap[s]) THEN {"ok", "fail", "exc"} ELSE {"fail", "exc"}

\* ------------------------------------------------- run_ffmpeg_oop_multi.py
\* A remove() that leaves the list as it is.
ListKeep(l, x) == l

\* active_streamers.remove(streamer): drops the first occurrence.
RECURSIVE ListRemove(_, _)
ListRemove(l, x) ==
  IF l = <<>> THEN <<>>
  ELSE IF Head(l) = x THEN Tail(l)
  ELSE <<Head(l)>> \o ListRemove(Tail(l), x)

Range(l) == {l[i] : i \in 1..Len(l)}

\* RTSPstreamer.release: closes self.cap when set, and clears it.
Multi_release(c, h, s) ==
  IF c[s] # None
  THEN [cap |-> [c EXCEPT ![s] = None], hcl |-> [h EXCEPT ![s] = DecoderClose(@, c[s])]]
  ELSE [cap |-> c, hcl |-> h]

\* The decoder handles after one attempt of the retry loop (the loop is the
\* same text in __connect_server and in way1's connect_server): cap.release()
\* runs on the no-frame path only; the except path goes straight to sleep and
\* continue.
AttemptHandles(h, o) ==
  CASE o = "readfail" -> DecoderClose(DecoderOpen(h), Len(h) + 1)
    [] o = "readexc"  -> DecoderOpen(h)
    [] o = "ok"       -> DecoderOpen(h)
    [] OTHER          -> h

\* A startup loop that appends every streamer, connected or not.
KeepAll(l, s, r) == Append(l, s)

\* main, lines 116-117 (and way1's main, lines 207-208): the startup loop
\* appends the streamer when its connect call returned True.
KeepIf(l, s, r) == IF r THEN Append(l, s) ELSE l

\* run() returned r to main: the startup loop keeps the streamer when r, the
\* poll loop removes it when not r.
Multi_Return(r) ==
  /\ runRet' = [runRet EXCEPT ![cur] = IF r THEN "true" ELSE "false"]
  /\ IF ctx = "startup"
     THEN /\ active' = KeepIf(active, cur, r)
          /\ idx' = idx + 1
          /\ pc' = "m_start"
          /\ UNCHANGED removals
     ELSE /\ active' = IF r THEN active ELSE ListRemove(active, cur)
          /\ removals' = IF r THEN removals ELSE [removals EXCEPT ![cur] = @ + 1]
          /\ pc' = "m_poll"
          /\ UNCHANGED idx

\* main, lines 113-117: for streamer in streamers: if streamer.run(2, 2): ...
Multi_main_start ==
  /\ UNCHANGED w1Vars
  /\ prog = "multi" /\ pc = "m_start"
  /\ IF idx <= ncfg
     THEN /\ cur' = idx /\ attempt' = 0 /\ ctx' = "startup"
          /\ pc' = "m_connect"
          /\ connRet' = [connRet EXCEPT ![idx] = "running"]
          /\ callBase' = Len(hcl[idx])
          /\ UNCHANGED it
     ELSE /\ pc' = "m_poll" /\ it' = 0
          /\ UNCHANGED <<cur, attempt, ctx, connRet, callBase>>
  /\ UNCHANGED <<prog, ncfg, cap, hcl, active, idx, crashed, polled, removals,
                 runRet, tries, lastRead>>

\* One iteration of the retry loop of __connect_server, and, when it is the
\* last one and fails, run()'s `return False`.
Multi_connect_server ==
  /\ UNCHANGED <<fst, frame_count, latest_frame, latest_timestamp, lock,
                 stopped, thread, thr, clk, seen, lcap, lframe, ltime, snap,
                 calls, captured, owned, pairs, report>>
  /\ prog = "multi" /\ pc = "m_connect"
  /\ \E o \in AttemptOutcomes(cur) :
       /\ hcl' = [hcl EXCEPT ![cur] = AttemptHandles(@, o)]
       /\ tries' = attempt + 1
       /\ lastRead' = [lastRead EXCEPT ![cur] =
                         CASE o = "ok" -> "ok"
                           [] o = "readexc" -> "exc"
                           [] o = "openexc" -> @
                           [] OTHER -> "fail"]
       /\ IF o = "ok"
          THEN /\ cap' = [cap EXCEPT ![cur] = Len(hcl[cur]) + 1]
               /\ connRet' = [connRet EXCEPT ![cur] = "true"]
               /\ pc' = "m_second"
               /\ UNCHANGED <<attempt, active, idx, removals, runRet>>
          ELSE IF attempt + 1 < TryTimes
          THEN /\ attempt' = attempt + 1
               /\ UNCHANGED <<cap, connRet, pc, active, idx, removals, runRet>>
          ELSE /\ connRet' = [connRet EXCEPT ![cur] = "false"]
               /\ Multi_Return(FALSE)
               /\ UNCHANGED <<cap, attempt>>
  /\ UNCHANGED <<prog, ncfg, cur, it, ctx, crashed, polled, callBase>>

\* run(), lines 69-76: the read after a successful connect.
Multi_run ==
  /\ UNCHANGED w1Vars
  /\ prog = "multi" /\ pc = "m_second"
  /\ \E o \in ReadOutcomes(cur) :
       /\ lastRead' = [lastRead EXCEPT ![cur] = o]
       /\ CASE o = "ok" ->
                 /\ Multi_Return(TRUE)
                 /\ UNCHANGED <<hcl, crashed>>
            [] o = "fail" ->
                 \* self.cap.release(); return False  (self.cap stays set)
                 /\ hcl' = [hcl EXCEPT ![cur] = DecoderClose(@, cap[cur])]
                 /\ Multi_Return(FALSE)
                 /\ UNCHANGED crashed
            [] o = "exc" ->
                 \* not caught by run(); main catches KeyboardInterrupt only.
                 \* In the poll loop the finally clause runs the cleanup; the
                 \* startup loop is outside the try.
                 /\ crashed' = TRUE
                 /\ pc' = IF ctx = "poll" THEN "m_cleanup" ELSE "m_dead"
                 /\ idx' = IF ctx = "poll" THEN 1 ELSE idx
                 /\ UNCHANGED <<hcl, active, removals, runRet>>
  /\ UNCHANGED <<prog, ncfg, cap, cur, it, attempt, ctx, polled, connRet, callBase,
                 tries>>

\* main, lines 121-131: one step of `for streamer in active_streamers`.
\* The list iterator holds an index into active_streamers itself.
Multi_main_poll ==
  /\ UNCHANGED w1Vars
  /\ prog = "multi" /\ pc = "m_poll"
  /\ IF it < Len(active)
     THEN LET s == active[it + 1] IN
          /\ it' = it + 1
          /\ cur' = s
          /\ polled' = [polled EXCEPT ![s] = @ + 1]
          /\ \E o \in (IF cap[s] = None THEN {"fail"} ELSE ReadOutcomes(s)) :
               /\ lastRead' = [lastRead EXCEPT ![s] = o]
               /\ CASE o = "ok" ->
                         UNCHANGED <<pc, cap, hcl, attempt, ctx, crashed, idx,
                                     connRet, callBase>>
                    [] o = "fail" ->
                         \* streamer.release(); streamer.run(2, 2)
                         /\ cap' = Multi_release(cap, hcl, s).cap
                         /\ hcl' = Multi_release(cap, hcl, s).hcl
                         /\ attempt' = 0 /\ ctx' = "poll" /\ pc' = "m_connect"
                         /\ connRet' = [connRet EXCEPT ![s] = "running"]
                         /\ callBase' = Len(hcl[s])
                         /\ UNCHANGED <<crashed, idx>>
                    [] o = "exc" ->
                         /\ crashed' = TRUE /\ pc' = "m_cleanup" /\ idx' = 1
                         /\ UNCHANGED <<cap, hcl, attempt, ctx, connRet,
                                        callBase>>
     ELSE /\ pc' = "m_waitkey"
          /\ UNCHANGED <<it, cur, polled, lastRead, cap, hcl, attempt, ctx,
                         crashed, idx, connRet, callBase>>
  /\ UNCHANGED <<prog, ncfg, active, removals, runRet, tries>>

\* main, lines 133-135: cv2.waitKey(1); 'q' breaks out of the while loop.
Multi_main_waitKey ==
  /\ UNCHANGED w1Vars
  /\ prog = "multi" /\ pc = "m_waitkey"
  /\ \/ /\ pc' = "m_poll" /\ it' = 0
        /\ polled' = [s \in Src |-> 0]
        /\ UNCHANGED idx
     \/ /\ pc' = "m_cleanup" /\ idx' = 1
        /\ UNCHANGED <<it, polled>>
  /\ UNCHANGED <<prog, ncfg, cap, hcl, active, cur, attempt, ctx, crashed, removals,
                 connRet, callBase, runRet, tries, lastRead>>

\* main, lines 137-138: KeyboardInterrupt anywhere inside the try.
Multi_main_interrupt ==
  /\ UNCHANGED w1Vars
  /\ prog = "multi"
  /\ \/ pc \in {"m_poll", "m_waitkey"}
     \/ pc \in {"m_connect", "m_second"} /\ ctx = "poll"
  /\ pc' = "m_cleanup" /\ idx' = 1
  /\ UNCHANGED <<prog, ncfg, cap, hcl, active, cur, it, attempt, ctx, crashed,
                 polled, removals, connRet, callBase, runRet, tries, lastRead>>

\* main, lines 139-143: finally: for streamer in streamers: streamer.release()
Multi_main_cleanup ==
  /\ UNCHANGED w1Vars
  /\ prog = "multi" /\ pc = "m_cleanup"
  /\ IF idx <= ncfg
     THEN /\ cap' = Multi_release(cap, hcl, idx).cap
          /\ hcl' = Multi_release(cap, hcl, idx).hcl
          /\ idx' = idx + 1
          /\ UNCHANGED pc
     ELSE /\ pc' = "m_done"
          /\ UNCHANGED <<cap, hcl, idx>>
  \* the poll loop's iterator and loop variables are dead from here on
  /\ cur' = 1 /\ it' = 0 /\ attempt' = 0 /\ ctx' = "cleanup"
  /\ polled' = [s \in Src |-> 0]
  /\ UNCHANGED <<prog, ncfg, active, crashed, removals, connRet, callBase, runRet,
                 tries, lastRead>>

\* RTSPstreamer.__init__ / RTSPStreamer.__init__ for every configured source,
\* and the locals of main before its first statement.
InitObjects ==
  /\ cap = [s \in Src |-> None]
  /\ hcl = [s \in Src |-> <<>>]
  /\ active = <<>>
  /\ cur = 1 /\ idx = 1 /\ it = 0 /\ attempt = 0
  /\ crashed = FALSE
  /\ polled = [s \in Src |-> 0]
  /\ removals = [s \in Src |-> 0]
  /\ connRet = [s \in Src |-> "none"]
  /\ callBase = 0
  /\ runRet = [s \in Src |-> "none"]
  /\ tries = 0
  /\ lastRead = [s \in Src |-> "none"]
  /\ fst = [s \in Src |-> None]
  /\ frame_count = [s \in Src |-> 0]
  /\ latest_frame = [s \in Src |-> None]
  /\ latest_timestamp = [s \in Src |-> None]
  /\ lock = [s \in Src |-> FALSE]
  /\ stopped = [s \in Src |-> FALSE]
  /\ thread = [s \in Src |-> None]
  /\ thr = [s \in Src |-> <<>>]
  /\ captured = [s \in Src |-> 0]
  /\ owned = [s \in Src |-> {}]
  /\ clk = [s \in Src |-> 0]
  /\ seen = [s \in Src |-> None]
  /\ lcap = None /\ lframe = None /\ ltime = None
  /\ snap = <<>>
  /\ calls = 0
  /\ pairs = [s \in Src |-> {<<None, None>>}]
  /\ report = [s \in Src |-> "none"]

InitMulti ==
  /\ prog = "multi" /\ ncfg = NumSources
  /\ pc = "m_start" /\ ctx = "startup" /\ InitObjects

NextMulti ==
  \/ Multi_main_start
  \/ Multi_connect_server
  \/ Multi_run
  \/ Multi_main_poll
  \/ Multi_main_waitKey
  \/ Multi_main_interrupt
  \/ Multi_main_cleanup

SpecMulti == InitMulti /\ [][NextMulti]_vars

\* ------------------------------ run_ffmpeg_oop_multi_thread_report_way1.py
W1Src == 1..NumThreaded

\* Variables the threaded script never writes.
constV == <<prog, ncfg, crashed, removals, runRet, report>>
\* The handles self.cap has held: written by connect_server only.
ownV == <<owned>>
\* The pairs written into the slot: written by the two publishing steps only.
pairV == <<pairs>>
\* Variables only the main thread writes.
mainV == <<pc, cur, idx, it, attempt, ctx, active, snap, lcap, lframe, ltime,
           calls, polled, seen, connRet, callBase, tries>>

\* Outcomes of self.cap.read() in the capture loop on handle h of source s.  A
\* handle released by another thread yields no frame or raises.
CaptureReadOutcomes(s, h) ==
  IF IsOpen(hcl[s], h)
  THEN (IF captured[s] < MaxFrames THEN {"ok"} ELSE {}) \cup {"fail", "exc"}
  ELSE {"fail", "exc"}

\* The capture loop with `return` in place of the fall-through on a read that
\* gave no frame.
Way1_AfterRead_stops(o) ==
  CASE o = "ok"   -> "pub1"
    [] o = "fail" -> "done"
    [] o = "exc"  -> "dead"

\* The capture loop without the test `if ret and frame is not None`.
Way1_AfterRead_unchecked(o) ==
  CASE o = "ok"   -> "pub1"
    [] o = "fail" -> "pub1"
    [] o = "exc"  -> "dead"

\* _capture_loop, lines 94-100: where the loop goes after cap.read().  A frame
\* is published; no frame falls through to the next `while not self.stopped`;
\* an exception is not caught and ends the thread.
Way1_AfterRead(o) ==
  CASE o = "ok"   -> "pub1"
    [] o = "fail" -> "check"
    [] o = "exc"  -> "dead"

\* _capture_loop, line 94: while not self.stopped
Way1_capture_check(s, t) ==
  /\ thr[s][t].pc = "check"
  /\ thr' = [thr EXCEPT ![s][t].pc = IF stopped[s] THEN "done" ELSE "call"]
  /\ UNCHANGED <<constV, ownV, pairV, mainV, cap, hcl, fst, frame_count, latest_frame,
                 latest_timestamp, lock, stopped, thread, captured, clk,
                 lastRead>>

\* _capture_loop, line 95: self.cap is evaluated and its read() is entered.
\* self.cap = None raises AttributeError, which ends the thread.
Way1_capture_call(s, t) ==
  /\ thr[s][t].pc = "call"
  /\ thr' = IF cap[s] = None
            THEN [thr EXCEPT ![s][t].pc = "dead"]
            ELSE [thr EXCEPT ![s][t].pc = "read", ![s][t].h = cap[s]]
  /\ UNCHANGED <<constV, ownV, pairV, mainV, cap, hcl, fst, frame_count, latest_frame,
                 latest_timestamp, lock, stopped, thread, captured, clk,
                 lastRead>>

\* _capture_loop, lines 95-96: the blocking read returns.
Way1_capture_read(s, t) ==
  /\ thr[s][t].pc = "read"
  /\ \E o \in CaptureReadOutcomes(s, thr[s][t].h) :
       /\ lastRead' = [lastRead EXCEPT ![s] = o]
       /\ captured' = [captured EXCEPT ![s] = IF o = "ok" THEN @ + 1 ELSE @]
       /\ thr' = [thr EXCEPT ![s][t].pc = Way1_AfterRead(o),
                             ![s][t].h = None,
                             ![s][t].fr = IF o = "ok" THEN captured[s] + 1 ELSE None]
  /\ UNCHANGED <<constV, ownV, pairV, mainV, cap, hcl, fst, frame_count, latest_frame,
                 latest_timestamp, lock, stopped, thread, clk>>

\* A publish that waits until the poll loop has shown the frame in the slot.
Way1_capture_pub1_waits(s, t) ==
  /\ thr[s][t].pc = "pub1"
  /\ lock[s] = FALSE
  /\ seen[s] = latest_frame[s]
  /\ lock' = [lock EXCEPT ![s] = TRUE]
  /\ latest_frame' = [latest_frame EXCEPT ![s] = thr[s][t].fr]
  /\ thr' = [thr EXCEPT ![s][t].pc = "pub2"]
  /\ UNCHANGED <<constV, ownV, pairV, mainV, cap, hcl, fst, frame_count, latest_timestamp,
                 stopped, thread, captured, clk, lastRead>>

\* A publish that writes latest_frame without taking self.lock.
Way1_capture_pub1_unlocked(s, t) ==
  /\ thr[s][t].pc = "pub1"
  /\ latest_frame' = [latest_frame EXCEPT ![s] = thr[s][t].fr]
  /\ thr' = [thr EXCEPT ![s][t].pc = "pub2"]
  /\ UNCHANGED <<constV, ownV, pairV, mainV, cap, hcl, fst, frame_count,
                 latest_timestamp, lock, stopped, thread, captured, clk,
                 lastRead>>

\* _capture_loop, lines 97-98: with self.lock: self.latest_frame = frame
Way1_capture_pub1(s, t) ==
  /\ thr[s][t].pc = "pub1"
  /\ lock[s] = FALSE
  /\ lock' = [lock EXCEPT ![s] = TRUE]
  /\ latest_frame' = [latest_frame EXCEPT ![s] = thr[s][t].fr]
  /\ thr' = [thr EXCEPT ![s][t].pc = "pub2"]
  /\ UNCHANGED <<constV, ownV, pairV, mainV, cap, hcl, fst, frame_count, latest_timestamp,
                 stopped, thread, captured, clk, lastRead>>

\* _capture_loop, line 99: self.latest_timestamp = time.time(); lock released.
\* pairs records the frame and the time this one publish wrote.
Way1_capture_pub2(s, t) ==
  /\ thr[s][t].pc = "pub2"
  /\ latest_timestamp' = [latest_timestamp EXCEPT ![s] = clk[s] + 1]
  /\ clk' = [clk EXCEPT ![s] = @ + 1]
  /\ lock' = [lock EXCEPT ![s] = FALSE]
  /\ thr' = [thr EXCEPT ![s][t].pc = "count", ![s][t].fr = None]
  /\ pairs' = [pairs EXCEPT ![s] = @ \cup {<<thr[s][t].fr, clk[s] + 1>>}]
  /\ UNCHANGED <<constV, ownV, mainV, cap, hcl, fst, frame_count, latest_frame,
                 stopped, thread, captured, lastRead>>

\* _capture_loop, line 100: self.frame_count += 1
Way1_capture_count(s, t) ==
  /\ thr[s][t].pc = "count"
  /\ frame_count' = [frame_count EXCEPT ![s] = @ + 1]
  /\ thr' = [thr EXCEPT ![s][t].pc = "check"]
  /\ UNCHANGED <<constV, ownV, pairV, mainV, cap, hcl, fst, latest_frame, latest_timestamp,
                 lock, stopped, thread, captured, clk, lastRead>>

\* connect_server returned r: main keeps the streamer when r (lines 207-208);
\* the client of a single connection just goes on.
Way1_Return(r) ==
  /\ connRet' = [connRet EXCEPT ![cur] = IF r THEN "true" ELSE "false"]
  /\ IF ctx = "startup"
     THEN /\ active' = KeepIf(active, cur, r)
          /\ idx' = idx + 1
          /\ pc' = "w_start"
     ELSE /\ pc' = "c_idle"
          /\ UNCHANGED <<active, idx>>

\* connect_server, lines 58-70: one iteration of the retry loop, and the
\* `return False` after the last one.
Way1_connect_server ==
  /\ pc = "w_connect"
  /\ \E o \in AttemptOutcomes(cur) :
       /\ hcl' = [hcl EXCEPT ![cur] = AttemptHandles(@, o)]
       /\ tries' = attempt + 1
       /\ lastRead' = [lastRead EXCEPT ![cur] =
                         CASE o = "ok" -> "ok"
                           [] o = "readexc" -> "exc"
                           [] o = "openexc" -> @
                           [] OTHER -> "fail"]
       /\ captured' = [captured EXCEPT ![cur] = IF o = "ok" THEN @ + 1 ELSE @]
       /\ IF o = "ok"
          THEN /\ lcap' = Len(hcl[cur]) + 1
               /\ lframe' = captured[cur] + 1
               /\ pc' = "w_assign"
               /\ UNCHANGED <<attempt, active, idx, connRet>>
          ELSE IF attempt + 1 < TryTimes
          THEN /\ attempt' = attempt + 1
               /\ UNCHANGED <<lcap, lframe, pc, active, idx, connRet>>
          ELSE /\ Way1_Return(FALSE)
               /\ UNCHANGED <<lcap, lframe, attempt>>
  /\ UNCHANGED <<constV, ownV, pairV, cur, it, ctx, snap, ltime, calls, polled, seen,
                 callBase, cap, fst, frame_count, latest_frame,
                 latest_timestamp, lock, stopped, thread, thr, clk>>

\* connect_server with first_start_time set on every success.
Way1_connect_assign_overwrites ==
  /\ pc = "w_assign"
  /\ cap' = [cap EXCEPT ![cur] = lcap]
  /\ owned' = [owned EXCEPT ![cur] = @ \cup {lcap}]
  /\ fst' = [fst EXCEPT ![cur] = clk[cur] + 1]
  /\ clk' = [clk EXCEPT ![cur] = @ + 1]
  /\ pc' = "w_seed1"
  /\ UNCHANGED <<constV, pairV, cur, idx, it, attempt, ctx, active, snap, lcap,
                 lframe, ltime, calls, polled, seen, connRet, callBase, tries,
                 hcl, frame_count, latest_frame, latest_timestamp, lock,
                 stopped, thread, thr, captured, lastRead>>

\* connect_server, lines 72-74: self.cap = cap; first_start_time if unset
Way1_connect_assign ==
  /\ pc = "w_assign"
  /\ cap' = [cap EXCEPT ![cur] = lcap]
  /\ owned' = [owned EXCEPT ![cur] = @ \cup {lcap}]
  /\ IF fst[cur] = None
     THEN /\ fst' = [fst EXCEPT ![cur] = clk[cur] + 1]
          /\ clk' = [clk EXCEPT ![cur] = @ + 1]
     ELSE UNCHANGED <<fst, clk>>
  /\ pc' = "w_seed1"
  /\ UNCHANGED <<constV, pairV, cur, idx, it, attempt, ctx, active, snap, lcap,
                 lframe, ltime, calls, polled, seen, connRet, callBase, tries,
                 hcl, frame_count, latest_frame, latest_timestamp, lock,
                 stopped, thread, thr, captured, lastRead>>

\* connect_server, lines 76-77: with self.lock: self.latest_frame = frame
Way1_connect_seed1 ==
  /\ pc = "w_seed1"
  /\ lock[cur] = FALSE
  /\ lock' = [lock EXCEPT ![cur] = TRUE]
  /\ latest_frame' = [latest_frame EXCEPT ![cur] = lframe]
  /\ pc' = "w_seed2"
  /\ UNCHANGED <<constV, ownV, pairV, cur, idx, it, attempt, ctx, active, snap, lcap,
                 lframe, ltime, calls, polled, seen, connRet, callBase, tries,
                 cap, hcl, fst, frame_count, latest_timestamp, stopped,
                 thread, thr, captured, clk, lastRead>>

\* connect_server, line 78: self.latest_timestamp = time.time(); lock released
Way1_connect_seed2 ==
  /\ pc = "w_seed2"
  /\ latest_timestamp' = [latest_timestamp EXCEPT ![cur] = clk[cur] + 1]
  /\ clk' = [clk EXCEPT ![cur] = @ + 1]
  /\ lock' = [lock EXCEPT ![cur] = FALSE]
  /\ pc' = "w_spawn"
  /\ pairs' = [pairs EXCEPT ![cur] = @ \cup {<<lframe, clk[cur] + 1>>}]
  /\ UNCHANGED <<constV, ownV, cur, idx, it, attempt, ctx, active, snap, lcap,
                 lframe, ltime, calls, polled, seen, connRet, callBase, tries,
                 cap, hcl, fst, frame_count, latest_frame, stopped, thread,
                 thr, captured, lastRead>>

\* connect_server, lines 80-84: self.stopped = False; the new thread is stored
\* in self.thread and started; return True
Way1_connect_spawn ==
  /\ pc = "w_spawn"
  /\ stopped' = [stopped EXCEPT ![cur] = FALSE]
  /\ thr' = [thr EXCEPT ![cur] = Append(@, [pc |-> "check", h |-> None, fr |-> None])]
  /\ thread' = [thread EXCEPT ![cur] = Len(thr[cur]) + 1]
  /\ Way1_Return(TRUE)
  /\ lcap' = None /\ lframe' = None
  /\ UNCHANGED <<constV, ownV, pairV, cur, it, attempt, ctx, snap, ltime,
                 calls, polled, seen, callBase, tries, cap, hcl, fst,
                 frame_count, latest_frame, latest_timestamp, lock, captured,
                 clk, lastRead>>

\* release returned: the cleanup loop of main goes to the next streamer.
Way1_ReleaseReturn ==
  IF ctx = "cleanup"
  THEN idx' = idx + 1 /\ pc' = "w_cleanup"
  ELSE pc' = "c_idle" /\ UNCHANGED idx

\* release, line 109: self.stopped = True
Way1_release_stop ==
  /\ pc = "w_rel"
  /\ stopped' = [stopped EXCEPT ![cur] = TRUE]
  /\ pc' = "w_join"
  /\ UNCHANGED <<constV, ownV, pairV, cur, idx, it, attempt, ctx, active, snap, lcap,
                 lframe, ltime, calls, polled, seen, connRet, callBase, tries,
                 cap, hcl, fst, frame_count, latest_frame, latest_timestamp,
                 lock, thread, thr, captured, clk, lastRead>>

\* release with self.thread.join() in place of the join with a timeout.
Way1_release_join_unbounded ==
  /\ pc = "w_join"
  /\ thread[cur] # None => thr[cur][thread[cur]].pc \in {"done", "dead"}
  /\ pc' = "w_close"
  /\ UNCHANGED <<constV, ownV, pairV, cur, idx, it, attempt, ctx, active, snap,
                 lcap, lframe, ltime, calls, polled, seen, connRet, callBase,
                 tries, cap, hcl, fst, frame_count, latest_frame,
                 latest_timestamp, lock, stopped, thread, thr, captured, clk,
                 lastRead>>

\* release, lines 110-111: self.thread.join(timeout=1.0) returns when the
\* thread has ended or when the second has passed, whichever is first.
Way1_release_join ==
  /\ pc = "w_join"
  /\ pc' = "w_close"
  /\ UNCHANGED <<constV, ownV, pairV, cur, idx, it, attempt, ctx, active, snap, lcap,
                 lframe, ltime, calls, polled, seen, connRet, callBase, tries,
                 cap, hcl, fst, frame_count, latest_frame, latest_timestamp,
                 lock, stopped, thread, thr, captured, clk, lastRead>>

\* release, lines 112-113: if self.cap is not None: self.cap.release()
Way1_release_close ==
  /\ pc = "w_close"
  /\ IF cap[cur] # None
     THEN /\ hcl' = [hcl EXCEPT ![cur] = DecoderClose(@, cap[cur])]
          /\ pc' = "w_clear"
          /\ UNCHANGED idx
     ELSE /\ Way1_ReleaseReturn
          /\ UNCHANGED hcl
  /\ UNCHANGED <<constV, ownV, pairV, cur, it, attempt, ctx, active, snap, lcap, lframe,
                 ltime, calls, polled, seen, connRet, callBase, tries, cap,
                 fst, frame_count, latest_frame, latest_timestamp, lock,
                 stopped, thread, thr, captured, clk, lastRead>>

\* A release that also empties the slot when it clears self.cap.
Way1_release_clear_slot ==
  /\ pc = "w_clear"
  /\ cap' = [cap EXCEPT ![cur] = None]
  /\ latest_frame' = [latest_frame EXCEPT ![cur] = None]
  /\ latest_timestamp' = [latest_timestamp EXCEPT ![cur] = None]
  /\ Way1_ReleaseReturn
  /\ UNCHANGED <<constV, ownV, pairV, cur, it, attempt, ctx, active, snap, lcap,
                 lframe, ltime, calls, polled, seen, connRet, callBase, tries,
                 hcl, fst, frame_count, lock, stopped, thread, thr, captured,
                 clk, lastRead>>

\* release, line 114: self.cap = None
Way1_release_clear ==
  /\ pc = "w_clear"
  /\ cap' = [cap EXCEPT ![cur] = None]
  /\ Way1_ReleaseReturn
  /\ UNCHANGED <<constV, ownV, pairV, cur, it, attempt, ctx, active, snap, lcap, lframe,
                 ltime, calls, polled, seen, connRet, callBase, tries, hcl,
                 fst, frame_count, latest_frame, latest_timestamp, lock,
                 stopped, thread, thr, captured, clk, lastRead>>

\* The object state no step of main or process_streamers writes directly.
objV == <<cap, hcl, fst, frame_count, latest_frame, latest_timestamp, stopped,
          thread, thr, captured, clk, lastRead>>

\* main, lines 204-208: for streamer in all_streamers: connect_server(2, 2)
Way1_main_start ==
  /\ prog = "way1" /\ pc = "w_start"
  /\ IF idx <= ncfg
     THEN /\ cur' = idx /\ attempt' = 0
          /\ pc' = "w_connect"
          /\ connRet' = [connRet EXCEPT ![idx] = "running"]
          /\ callBase' = Len(hcl[idx])
     ELSE /\ pc' = "w_while"
          /\ UNCHANGED <<cur, attempt, connRet, callBase>>
  /\ UNCHANGED <<constV, ownV, pairV, objV, lock, idx, it, ctx, active, snap, lcap, lframe,
                 ltime, calls, polled, seen, tries>>

\* main's finally clause without its report loop.
Way1_process_leave_unreported == pc' = "w_cleanup" /\ ctx' = "cleanup" /\ idx' = 1

\* process_streamers returned or raised: main's finally clause starts with the
\* report loop (lines 215-219).
Way1_process_leave == pc' = "w_report" /\ ctx' = "cleanup" /\ idx' = 1

\* Which line the report prints for a streamer (lines 220-225): "fps" is the
\* line with the average FPS since first_start_time and the frame_count of the
\* moment, "failed" the line that says the connection failed.
ReportLine(s) == IF fst[s] # None THEN "fps" ELSE "failed"

\* main, lines 219-226: for streamer in all_streamers: print its line; then the
\* release loop starts.
Way1_main_report ==
  /\ prog = "way1" /\ pc = "w_report"
  /\ IF idx <= ncfg
     THEN /\ report' = [report EXCEPT ![idx] = ReportLine(idx)]
          /\ idx' = idx + 1
          /\ UNCHANGED pc
     ELSE /\ pc' = "w_cleanup" /\ idx' = 1
          /\ UNCHANGED report
  /\ UNCHANGED <<prog, ncfg, crashed, removals, runRet, ownV, pairV, objV, lock,
                 cur, it, attempt, ctx, active, snap, lcap, lframe, ltime,
                 calls, polled, seen, connRet, callBase, tries>>

\* process_streamers, lines 133-135: the while test on the elapsed time, and
\* the copy active_streamers[:] the for loop walks.
Way1_process_while ==
  /\ prog = "way1" /\ pc = "w_while"
  /\ \/ /\ snap' = active /\ it' = 0
        /\ polled' = [s \in Src |-> 0]
        /\ pc' = "w_for"
        /\ UNCHANGED <<ctx, idx>>
     \/ /\ Way1_process_leave
        /\ UNCHANGED <<snap, it, polled>>
  /\ UNCHANGED <<constV, ownV, pairV, objV, lock, cur, attempt, active, lcap, lframe, ltime,
                 calls, seen, connRet, callBase, tries>>

\* process_streamers, line 135: the next streamer of the copy.
Way1_process_for ==
  /\ prog = "way1" /\ pc = "w_for"
  /\ IF it < Len(snap)
     THEN /\ cur' = snap[it + 1] /\ it' = it + 1
          /\ pc' = "w_rd1"
     ELSE /\ pc' = "w_waitkey"
          /\ UNCHANGED <<cur, it>>
  /\ lframe' = None /\ ltime' = None
  /\ UNCHANGED <<constV, ownV, pairV, objV, lock, idx, attempt, ctx, active, snap, lcap,
                 calls, polled, seen, connRet, callBase, tries>>

\* process_streamers, lines 137-138: with streamer.lock: frame = latest_frame
Way1_process_read1 ==
  /\ prog = "way1" /\ pc = "w_rd1"
  /\ lock[cur] = FALSE
  /\ lock' = [lock EXCEPT ![cur] = TRUE]
  /\ lframe' = latest_frame[cur]
  /\ pc' = "w_rd2"
  /\ UNCHANGED <<constV, ownV, pairV, objV, cur, idx, it, attempt, ctx, active, snap, lcap,
                 ltime, calls, polled, seen, connRet, callBase, tries>>

\* process_streamers, lines 139-164: frame_time = latest_timestamp, the lock is
\* released; no frame: continue; a frame: overlay and visualize_frame(frame).
Way1_process_read2 ==
  /\ prog = "way1" /\ pc = "w_rd2"
  /\ ltime' = latest_timestamp[cur]
  /\ lock' = [lock EXCEPT ![cur] = FALSE]
  /\ polled' = [polled EXCEPT ![cur] = @ + 1]
  /\ seen' = IF lframe = None THEN seen ELSE [seen EXCEPT ![cur] = lframe]
  /\ pc' = "w_for"
  /\ UNCHANGED <<constV, ownV, pairV, objV, cur, idx, it, attempt, ctx, active, snap, lcap,
                 lframe, calls, connRet, callBase, tries>>

\* process_streamers, lines 166-168: 'q' breaks out of the while loop.
Way1_process_waitKey ==
  /\ prog = "way1" /\ pc = "w_waitkey"
  /\ \/ /\ pc' = "w_while"
        /\ snap' = <<>> /\ it' = 0
        /\ UNCHANGED <<ctx, idx, polled>>
     \/ /\ Way1_process_leave
        /\ snap' = <<>> /\ it' = 0
        /\ polled' = [s \in Src |-> 0]
  /\ UNCHANGED <<constV, ownV, pairV, objV, lock, cur, attempt, active, lcap,
                 lframe, ltime, calls, seen, connRet, callBase, tries>>

\* main, lines 213-215: KeyboardInterrupt inside process_streamers.  Raised
\* inside the with block, it releases the lock on the way out.
Way1_main_interrupt ==
  /\ prog = "way1"
  /\ pc \in {"w_while", "w_for", "w_rd1", "w_rd2", "w_waitkey"}
  /\ lock' = IF pc = "w_rd2" THEN [lock EXCEPT ![cur] = FALSE] ELSE lock
  /\ Way1_process_leave
  /\ snap' = <<>> /\ it' = 0 /\ lframe' = None /\ ltime' = None
  /\ polled' = [s \in Src |-> 0]
  /\ UNCHANGED <<constV, ownV, pairV, objV, cur, attempt, active, lcap, calls, seen,
                 connRet, callBase, tries>>

\* main, lines 227-229: for streamer in all_streamers: streamer.release()
Way1_main_cleanup ==
  /\ prog = "way1" /\ pc = "w_cleanup"
  /\ IF idx <= ncfg
     THEN cur' = idx /\ pc' = "w_rel"
     ELSE pc' = "w_done" /\ UNCHANGED cur
  /\ UNCHANGED <<constV, ownV, pairV, objV, lock, idx, it, attempt, ctx, active, snap, lcap,
                 lframe, ltime, calls, polled, seen, connRet, callBase, tries>>

\* A client of one RTSPStreamer calls connect_server(2, 2) on it.
Conn_call_connect ==
  /\ prog = "conn" /\ pc = "c_idle"
  /\ calls < MaxCalls
  /\ calls' = calls + 1
  /\ attempt' = 0
  /\ connRet' = [connRet EXCEPT ![cur] = "running"]
  /\ callBase' = Len(hcl[cur])
  /\ pc' = "w_connect"
  /\ UNCHANGED <<constV, ownV, pairV, objV, lock, cur, idx, it, ctx, active, snap, lcap,
                 lframe, ltime, polled, seen, tries>>

\* A client of one RTSPStreamer calls release() on it.
Conn_call_release ==
  /\ prog = "conn" /\ pc = "c_idle"
  /\ calls < MaxCalls
  /\ calls' = calls + 1
  /\ pc' = "w_rel"
  /\ UNCHANGED <<constV, ownV, pairV, objV, lock, cur, idx, it, attempt, ctx, active, snap,
                 lcap, lframe, ltime, polled, seen, connRet, callBase, tries>>

\* ------------------------------ run_ffmpeg_oop_multi_thread_report_way2.py
W2Src == 1..NumStreams

\* Variables the way2 script has no counterpart of.
noV2 == <<active, attempt, ctx, removals, connRet, callBase, runRet, tries, fst,
          latest_timestamp, thread, clk, lcap, ltime, snap, calls, pairs,
          report>>
\* Variables only the main thread of way2 writes.
mainV2 == <<pc, cur, idx, it, lframe, polled, seen, frame_count, cap, owned,
            stopped, crashed>>

\* The process is running: its daemon threads end with it.
Way2_Running == pc \notin {"v_done", "v_dead", "v_killed"}

\* update, lines 22-26: where the loop goes after cap.read().  `if ret:`
\* stores the frame; otherwise the loop falls through to the while test.
Way2_AfterRead(o) ==
  CASE o = "ok"   -> "u_pub"
    [] o = "fail" -> "u_check"
    [] o = "exc"  -> "dead"

\* update, line 22: while not self.stopped
Way2_update_check(s, t) ==
  /\ Way2_Running
  /\ thr[s][t].pc = "u_check"
  /\ thr' = [thr EXCEPT ![s][t].pc = IF stopped[s] THEN "done" ELSE "u_call"]
  /\ UNCHANGED <<prog, ncfg, noV2, mainV2, hcl, latest_frame, lock, captured, lastRead>>

\* update, line 23: self.cap is evaluated and its read() is entered.
Way2_update_call(s, t) ==
  /\ Way2_Running
  /\ thr[s][t].pc = "u_call"
  /\ thr' = [thr EXCEPT ![s][t].pc = "u_read", ![s][t].h = cap[s]]
  /\ UNCHANGED <<prog, ncfg, noV2, mainV2, hcl, latest_frame, lock, captured, lastRead>>

\* update, lines 23-24: the blocking read returns.
Way2_update_read(s, t) ==
  /\ Way2_Running
  /\ thr[s][t].pc = "u_read"
  /\ \E o \in CaptureReadOutcomes(s, thr[s][t].h) :
       /\ lastRead' = [lastRead EXCEPT ![s] = o]
       /\ captured' = [captured EXCEPT ![s] = IF o = "ok" THEN @ + 1 ELSE @]
       /\ thr' = [thr EXCEPT ![s][t].pc = Way2_AfterRead(o),
                             ![s][t].h = None,
                             ![s][t].fr = IF o = "ok" THEN captured[s] + 1 ELSE None]
  /\ UNCHANGED <<prog, ncfg, noV2, mainV2, hcl, latest_frame, lock>>

\* update, lines 25-26: with self.lock: self.frame = frame.  The one
\* assignment inside the lock is one step; the lock is free before and after.
Way2_update_publish(s, t) ==
  /\ Way2_Running
  /\ thr[s][t].pc = "u_pub"
  /\ lock[s] = FALSE
  /\ latest_frame' = [latest_frame EXCEPT ![s] = thr[s][t].fr]
  /\ thr' = [thr EXCEPT ![s][t].pc = "u_check", ![s][t].fr = None]
  /\ UNCHANGED <<prog, ncfg, noV2, mainV2, hcl, lock, captured, lastRead>>

\* Outcomes of cv2.VideoCapture(url) in the constructor.
ConstructOutcomes(s) ==
  (IF Len(hcl[s]) < MaxOpens THEN {"ok"} ELSE {}) \cup {"openfail", "openexc"}

\* main, line 55, and VideoStream.__init__, lines 7-19: the streams are built
\* in turn.  A decoder that is not opened makes the constructor call exit();
\* an exception of cv2.VideoCapture is not caught; otherwise the update thread
\* is started.  When all are built, main goes to its while loop (the client of
\* one VideoStream has it at hand).
Way2_init ==
  /\ prog \in {"way2", "stream"} /\ pc = "v_init"
  /\ IF idx <= ncfg
     THEN \E o \in ConstructOutcomes(idx) :
            IF o = "ok"
            THEN /\ hcl' = [hcl EXCEPT ![idx] = DecoderOpen(@)]
                 /\ cap' = [cap EXCEPT ![idx] = Len(hcl[idx]) + 1]
                 /\ owned' = [owned EXCEPT ![idx] = @ \cup {Len(hcl[idx]) + 1}]
                 /\ thr' = [thr EXCEPT ![idx] =
                              Append(@, [pc |-> "u_check", h |-> None, fr |-> None])]
                 /\ idx' = idx + 1
                 /\ UNCHANGED <<pc, crashed, it>>
            ELSE /\ pc' = "v_dead"
                 /\ crashed' = TRUE
                 /\ UNCHANGED <<hcl, cap, owned, thr, idx, it>>
     ELSE /\ pc' = IF ctx = "client" THEN "s_idle" ELSE "v_for"
          /\ it' = 0
          /\ UNCHANGED <<hcl, cap, owned, thr, idx, crashed>>
  /\ UNCHANGED <<prog, ncfg, noV2, cur, lframe, polled, seen, frame_count, stopped,
                 latest_frame, lock, captured, lastRead>>

\* main, line 63: for idx, stream in enumerate(streams)
Way2_main_for ==
  /\ prog = "way2" /\ pc = "v_for"
  /\ IF it < ncfg
     THEN cur' = it + 1 /\ it' = it + 1 /\ pc' = "v_read"
     ELSE pc' = "v_waitkey" /\ UNCHANGED <<cur, it>>
  /\ UNCHANGED <<prog, ncfg, noV2, idx, lframe, polled, seen, frame_count, cap, owned,
                 stopped, crashed, hcl, latest_frame, lock, thr, captured, lastRead>>

\* main, line 65, and VideoStream.read, lines 28-30: with self.lock: return
\* self.frame
Way2_read ==
  /\ prog = "way2" /\ pc = "v_read"
  /\ lock[cur] = FALSE
  /\ lframe' = latest_frame[cur]
  /\ pc' = "v_show"
  /\ UNCHANGED <<prog, ncfg, noV2, cur, idx, it, polled, seen, frame_count, cap, owned,
                 stopped, crashed, hcl, latest_frame, lock, thr, captured, lastRead>>

\* main, lines 66-83: no frame: continue; a frame: frame_counts[idx] += 1,
\* overlay, cv2.imshow.
Way2_main_show ==
  /\ prog = "way2" /\ pc = "v_show"
  /\ polled' = [polled EXCEPT ![cur] = @ + 1]
  /\ IF lframe = None
     THEN UNCHANGED <<seen, frame_count>>
     ELSE /\ frame_count[cur] < MaxShown
          /\ seen' = [seen EXCEPT ![cur] = lframe]
          /\ frame_count' = [frame_count EXCEPT ![cur] = @ + 1]
  /\ lframe' = None
  /\ pc' = "v_for"
  /\ UNCHANGED <<prog, ncfg, noV2, cur, idx, it, cap, owned, stopped, crashed, hcl,
                 latest_frame, lock, thr, captured, lastRead>>

\* main, lines 86-87: 'q' breaks out of `while True`; otherwise the next
\* iteration starts.
Way2_main_waitKey ==
  /\ prog = "way2" /\ pc = "v_waitkey"
  /\ \/ pc' = "v_for" /\ it' = 0 /\ UNCHANGED idx
     \/ pc' = "v_stop" /\ it' = 0 /\ idx' = 1
  /\ polled' = [s \in Src |-> 0]
  /\ UNCHANGED <<prog, ncfg, noV2, cur, lframe, seen, frame_count, cap, owned, stopped,
                 crashed, hcl, latest_frame, lock, thr, captured, lastRead>>

\* main has no try: a KeyboardInterrupt in the while loop ends the process
\* with no stream stopped.
Way2_main_interrupt ==
  /\ prog = "way2"
  /\ pc \in {"v_for", "v_read", "v_show", "v_waitkey"}
  /\ pc' = "v_killed"
  /\ it' = 0 /\ lframe' = None
  /\ polled' = [s \in Src |-> 0]
  /\ UNCHANGED <<prog, ncfg, noV2, cur, idx, seen, frame_count, cap, owned, stopped,
                 crashed, hcl, latest_frame, lock, thr, captured, lastRead>>

\* main, lines 90-91, and VideoStream.stop, line 33: self.stopped = True
Way2_stop ==
  /\ prog \in {"way2", "stream"} /\ pc = "v_stop"
  /\ IF idx <= ncfg
     THEN /\ stopped' = [stopped EXCEPT ![idx] = TRUE]
          /\ pc' = "v_close"
     ELSE /\ pc' = IF ctx = "client" THEN "s_idle" ELSE "v_done"
          /\ UNCHANGED stopped
  /\ UNCHANGED <<prog, ncfg, noV2, cur, idx, it, lframe, polled, seen, frame_count,
                 cap, owned, crashed, hcl, latest_frame, lock, thr, captured,
                 lastRead>>

\* VideoStream.stop, line 34: self.cap.release(), with no join before it and
\* self.cap left set.
Way2_stop_release ==
  /\ prog \in {"way2", "stream"} /\ pc = "v_close"
  /\ hcl' = [hcl EXCEPT ![idx] = DecoderClose(@, cap[idx])]
  /\ idx' = idx + 1
  /\ pc' = "v_stop"
  /\ UNCHANGED <<prog, ncfg, noV2, cur, it, lframe, polled, seen, frame_count, cap,
                 owned, stopped, crashed, latest_frame, lock, thr, captured,
                 lastRead>>

\* A client of one VideoStream it has constructed calls stop() on it.
Stream_call_stop ==
  /\ prog = "stream" /\ pc = "s_idle"
  /\ calls < MaxCalls
  /\ calls' = calls + 1
  /\ idx' = 1
  /\ pc' = "v_stop"
  /\ UNCHANGED <<prog, ncfg, active, attempt, ctx, removals, connRet, callBase,
                 runRet, tries, fst, latest_timestamp, thread, clk, lcap, ltime,
                 snap, pairs, report, cur, it, lframe, polled, seen,
                 frame_count, cap, owned, stopped, crashed, hcl, latest_frame,
                 lock, thr, captured, lastRead>>

InitWay2 ==
  /\ prog = "way2" /\ ncfg = NumStreams
  /\ pc = "v_init" /\ ctx = "startup" /\ InitObjects

NextWay2 ==
  \/ Way2_init
  \/ Way2_main_for
  \/ Way2_read
  \/ Way2_main_show
  \/ Way2_main_waitKey
  \/ Way2_main_interrupt
  \/ Way2_stop
  \/ Way2_stop_release
  \/ \E s \in W2Src : \E t \in 1..Len(thr[s]) : Way2_update_check(s, t)
  \/ \E s \in W2Src : \E t \in 1..Len(thr[s]) : Way2_update_call(s, t)
  \/ \E s \in W2Src : \E t \in 1..Len(thr[s]) : Way2_update_read(s, t)
  \/ \E s \in W2Src : \E t \in 1..Len(thr[s]) : Way2_update_publish(s, t)

SpecWay2 == InitWay2 /\ [][NextWay2]_vars

InitStream ==
  /\ prog = "stream" /\ ncfg = 1
  /\ pc = "v_init" /\ ctx = "client" /\ InitObjects

\* The operations of one VideoStream: its constructor, stop, its thread.
NextStream ==
  \/ Way2_init
  \/ Stream_call_stop
  \/ Way2_stop
  \/ Way2_stop_release
  \/ \E s \in W2Src : \E t \in 1..Len(thr[s]) : Way2_update_check(s, t)
  \/ \E s \in W2Src : \E t \in 1..Len(thr[s]) : Way2_update_call(s, t)
  \/ \E s \in W2Src : \E t \in 1..Len(thr[s]) : Way2_update_read(s, t)
  \/ \E s \in W2Src : \E t \in 1..Len(thr[s]) : Way2_update_publish(s, t)

InitWay1 ==
  /\ prog = "way1" /\ ncfg = NumThreaded
  /\ pc = "w_start" /\ ctx = "startup" /\ InitObjects

InitConn ==
  /\ prog = "conn" /\ ncfg = 1
  /\ pc = "c_idle" /\ ctx = "client" /\ InitObjects

\* The operations of one RTSPStreamer: connect_server, release, its threads.
NextStreamer ==
  \/ Way1_connect_server
  \/ Way1_connect_assign
  \/ Way1_connect_seed1
  \/ Way1_connect_seed2
  \/ Way1_connect_spawn
  \/ Way1_release_stop
  \/ Way1_release_join
  \/ Way1_release_close
  \/ Way1_release_clear
  \/ \E s \in Src : \E t \in 1..Len(thr[s]) : Way1_capture_check(s, t)
  \/ \E s \in Src : \E t \in 1..Len(thr[s]) : Way1_capture_call(s, t)
  \/ \E s \in Src : \E t \in 1..Len(thr[s]) : Way1_capture_read(s, t)
  \/ \E s \in Src : \E t \in 1..Len(thr[s]) : Way1_capture_pub1(s, t)
  \/ \E s \in Src : \E t \in 1..Len(thr[s]) : Way1_capture_pub2(s, t)
  \/ \E s \in Src : \E t \in 1..Len(thr[s]) : Way1_capture_count(s, t)

NextWay1 ==
  \/ Way1_main_start
  \/ Way1_process_while
  \/ Way1_process_for
  \/ Way1_process_read1
  \/ Way1_process_read2
  \/ Way1_process_waitKey
  \/ Way1_main_interrupt
  \/ Way1_main_report
  \/ Way1_main_cleanup
  \/ NextStreamer

NextConn ==
  \/ Conn_call_connect
  \/ Conn_call_release
  \/ NextStreamer

SpecWay1 == InitWay1 /\ [][NextWay1]_vars

SpecConn == InitConn /\ [][NextConn]_vars

\* One connection object of either threaded script in the hands of a client.
InitClient == InitConn \/ InitStream

NextClient == NextConn \/ NextStream

SpecClient == InitClient /\ [][NextClient]_vars

\* The two connect methods at work: the sequential script, and one
\* RTSPStreamer in the hands of a client.
InitConnects == InitMulti \/ InitConn

NextConnects == NextMulti \/ NextConn

SpecConnects == InitConnects /\ [][NextConnects]_vars

\* The two scripts with a capture thread per source.
InitThreaded == InitWay1 \/ InitWay2

NextThreaded == NextWay1 \/ NextWay2

SpecThreaded == InitThreaded /\ [][NextThreaded]_vars

\* Any of the three scripts.
Init == InitMulti \/ InitWay1 \/ InitWay2

Next == NextMulti \/ NextWay1 \/ NextWay2

Spec == Init /\ [][Next]_vars

\* Any of the three scripts with any number of entries in its rtsp_urls list,
\* none included.
InitConfigured ==
  /\ \/ prog = "multi" /\ ncfg \in 0..NumSources /\ pc = "m_start"
     \/ prog = "way1" /\ ncfg \in 0..NumThreaded /\ pc = "w_start"
     \/ prog = "way2" /\ ncfg \in 0..NumStreams /\ pc = "v_init"
  /\ ctx = "startup" /\ InitObjects

SpecConfigured == InitConfigured /\ [][Next]_vars

\* ------------------------------------------------------------------ claims
Alive(s) == {t \in 1..Len(thr[s]) : thr[s][t].pc \notin {"done", "dead"}}

\* Handles opened by the connect call that runs or last ran (for cur) and
\* still open.
OpenedByCall == {k \in OpenHandles(cur) : k > callBase}

\* C1: one connection under any sequence of connect_server, capture steps and
\* release has at most one open decoder handle among those it has held in
\* self.cap, and at most one running capture loop.
C1_OneHandleOneLoop ==
  \A s \in Src :
    /\ Cardinality(OpenHandles(s) \cap owned[s]) <= 1
    /\ Cardinality(Alive(s)) <= 1

\* C4: no decoder handle is ever closed twice, and after the final cleanup
\* every handle ever opened has been closed exactly once.
C4_ShutdownBalanced ==
  \A s \in Src : \A k \in 1..Len(hcl[s]) :
    /\ hcl[s][k] <= 1
    /\ pc \in {"m_done", "w_done"} => hcl[s][k] = 1

\* C5: within one connect call an attempt that opened the decoder and did not
\* succeed has closed its handle before the next attempt; at most one handle
\* opened by the call is open, and none once the call has returned failure.
C5_NoHandleAcrossRetries ==
  /\ connRet[cur] = "running" => Cardinality(OpenedByCall) <= 1
  /\ connRet[cur] = "running" /\ pc \in {"m_connect", "w_connect"}
       => OpenedByCall = {}
  /\ connRet[cur] = "false" /\ pc \in {"m_start", "m_poll", "w_start", "c_idle"}
       => OpenedByCall = {}

\* C6: the failure of a source (no frame, or an exception of the decoder)
\* never ends the process: no exception escapes main.
C6_SourceFailureNeverEndsProcess == ~crashed

\* C7: when a poll iteration ends, every source still in the active set has
\* been processed exactly once in it.
C7_EachActivePolledOnce ==
  pc \in {"m_waitkey", "w_waitkey"} =>
    \A s \in Range(active) : polled[s] = 1

\* A step in which capture thread t of source s (_capture_loop of way1, update
\* of way2) comes back from a decoder read that gave no frame.
FailedRead(s, t) ==
  /\ t \in 1..Len(thr[s])
  /\ thr[s][t].pc \in {"read", "u_read"}
  /\ thr'[s][t].pc # thr[s][t].pc
  /\ lastRead'[s] = "fail"

\* Capture thread t of source s is at its `while not self.stopped` test.
AtWhile(s, t) == thr[s][t].pc \in {"check", "u_check"}

\* C2 as stated: a capture loop whose decoder read fails terminates, and so
\* never reads again.
C2_FailedReadEndsLoop ==
  [][\A s \in Src : \A t \in 1..Len(thr[s]) :
       FailedRead(s, t) => thr'[s][t].pc = "done"]_vars

\* C2 as amended: a failed read publishes nothing, counts nothing, changes no
\* field of the connection and takes the loop back to `while not
\* self.stopped`; the loop ends only on finding stopped set there (or on an
\* exception of the decoder or of self.cap being None), and while stopped is
\* not set it goes on to the next decoder read.
C2_FailedReadRetries ==
  /\ [][\A s \in Src : \A t \in 1..Len(thr[s]) :
          FailedRead(s, t) =>
            /\ AtWhile(s, t)'
            /\ UNCHANGED <<latest_frame, latest_timestamp, frame_count,
                           stopped, cap, thread, active>>]_vars
  /\ [][\A s \in Src : \A t \in 1..Len(thr[s]) :
          thr[s][t].pc # "done" /\ thr'[s][t].pc = "done" =>
            AtWhile(s, t) /\ stopped[s]]_vars
  /\ [][\A s \in Src : \A t \in 1..Len(thr[s]) :
          AtWhile(s, t) /\ ~stopped[s] /\ thr'[s][t] # thr[s][t] =>
            thr'[s][t].pc \in {"call", "u_call"}]_vars

\* C2 witness: a capture thread is inside a decoder read although the last
\* decoder read of its source gave no frame.
C2_ReadsAgainAfterFailure ==
  \E s \in Src : \E t \in 1..Len(thr[s]) :
    thr[s][t].pc = "read" /\ lastRead[s] = "fail" /\ ~stopped[s] /\ prog = "way1"

\* The parts of C3 both scripts share: a source is removed at most once and
\* is then out of the active set; the reconnect of a failed source is one
\* run(2, 2) call on a source of the active set; after its removal nothing
\* opens, reads or runs the source again (only the final release touches it).
C3_RemovalInv ==
  /\ \A s \in Src : removals[s] <= 1 /\ (removals[s] = 1 => s \notin Range(active))
  /\ pc \in {"m_connect", "m_second"} /\ ctx = "poll" =>
       attempt < TryTimes /\ cur \in Range(active)

C3_RemovedIsLeftAlone ==
  \A s \in Src : removals[s] = 1 =>
    /\ lastRead'[s] = lastRead[s]
    /\ runRet'[s] = runRet[s]
    /\ connRet'[s] = connRet[s]
    /\ polled'[s] <= polled[s]
    /\ Len(hcl'[s]) = Len(hcl[s])

\* A source of the active set whose last decoder read gave no frame has been
\* reconnected or removed by the time the poll iteration ends.
C3_FailureHandled ==
  pc \in {"m_waitkey", "w_waitkey"} =>
    \A s \in Range(active) : lastRead[s] # "fail"

Configured == 1..ncfg

StartupDone ==
  \/ prog = "multi" /\ pc = "m_start" /\ idx > ncfg
  \/ prog = "way1" /\ pc = "w_start" /\ idx > ncfg

\* The connect call main makes at startup returned success.
StartupSucceeded(s) ==
  IF prog = "multi" THEN runRet[s] = "true" ELSE connRet[s] = "true"

\* The startup loop has just got the value of the connect call on cur.
StartupCallReturned ==
  /\ idx > 1
  /\ \/ prog = "multi" /\ pc = "m_start"
     \/ prog = "way1" /\ pc = "w_start"

InFlight(s) ==
  Cardinality({t \in 1..Len(thr[s]) :
                 thr[s][t].pc \in {"pub1", "u_pub"} /\ thr[s][t].fr # None})
    + (IF pc \in {"w_assign", "w_seed1"} /\ cur = s THEN 1 ELSE 0)

\* C9: frames carry their capture index.  The frames the poll loop shows for a
\* source never go back in capture order; the slot always holds the newest
\* captured frame that was published, whatever the poll loop has shown, and
\* that is what a read returns (again, if nothing was published since; the
\* newest only, if several were); a capture loop holding a frame can publish
\* as soon as the lock is free, whether or not the previous one was read.
C9_SlotKeepsNewestInOrder ==
  /\ [][\A s \in Src : seen'[s] >= seen[s]]_vars
  /\ [](\A s \in Src : latest_frame[s] = captured[s] - InFlight(s))
  /\ [](pc = "w_rd2" => lock[cur] /\ lframe = latest_frame[cur] /\ lframe >= seen[cur])
  /\ [](\A s \in Src : \A t \in 1..Len(thr[s]) :
          thr[s][t].pc = "pub1" /\ ~lock[s] => ENABLED Way1_capture_pub1(s, t))

\* C9 witness: the first read of the poll loop returns frame 2 of the source:
\* frame 1, the seed, was published and overwritten unread.
C9_ReadSkipsToNewest ==
  /\ pc = "w_rd2" /\ prog = "way1"
  /\ polled[cur] = 0 /\ seen[cur] = None /\ lframe = 2

\* The slot of source s has had its first publish: a captured frame has been
\* stored in it, by connect_server (the seed) or by the capture loop.
FirstPublished(s) == captured[s] - InFlight(s) >= 1

\* C10: a slot that holds a frame never goes back to empty, and once the slot
\* had its first publish every read of the poll loop returns a frame.
C10_NoAbsentFrameAfterFirstPublish ==
  /\ [][\A s \in Src : latest_frame[s] # None => latest_frame'[s] # None]_vars
  /\ [](\A s \in Src : FirstPublished(s) => latest_frame[s] # None)
  /\ [][/\ pc \in {"w_rd1", "v_read"} /\ pc' \in {"w_rd2", "v_show"}
          /\ FirstPublished(cur)
          => lframe' # None]_vars

\* C10 witness: the poll loop reads a frame from the slot of a source whose
\* last decoder read gave no frame.
C10_ReadAfterFailedCapture ==
  /\ pc = "w_rd2" /\ prog = "way1"
  /\ lastRead[cur] = "fail" /\ frame_count[cur] >= 1 /\ lframe # None

\* C11: the frame and the timestamp a poll of the threaded script reads were
\* written together by one publish (the seed of connect_server or one
\* iteration of the capture loop), or are the empty pair of a slot nothing has
\* been published to; never the frame of one publish with the time of another.
C11_ReadPairFromOnePublish ==
  [][prog = "way1" /\ pc = "w_rd2" /\ pc' = "w_for"
       => <<lframe, ltime'>> \in pairs[cur]]_vars

\* A poll has read a pair while the slot held its second publication: the
\* seed and one capture were both published before the read.
C11_ReadSecondPublish ==
  /\ prog = "way1" /\ pc = "w_for" /\ it > 0
  /\ lframe = 2 /\ ltime # None
  /\ Cardinality(pairs[cur]) >= 3

\* A capture loop of source s has published and not yet counted (between
\* lines 99 and 100).
Uncounted(s) == {t \in 1..Len(thr[s]) : thr[s][t].pc = "count"}

\* C12: frame_count of a connection equals the number of publishes made to
\* its slot, whenever no capture loop is between its publish and its
\* increment.
C12_CountIsNumberOfPublishes ==
  \A s \in Configured :
    prog = "way1" /\ Uncounted(s) = {}
      => frame_count[s] = Cardinality(pairs[s] \ {<<None, None>>})

\* C13: whatever calls a client makes on one connection object, release()
\* (stop() of VideoStream) called any number of times closes no decoder
\* handle more than once.
C13_ReleaseClosesAtMostOnce ==
  \A s \in Configured : \A k \in 1..Len(hcl[s]) : hcl[s][k] <= 1

\* The positions of main in its finally clause before it is through.
ShutdownPcs == {"w_report", "w_cleanup", "w_rel", "w_join", "w_close", "w_clear"}

\* The steps main takes in its finally clause.
MainShutdownStep ==
  \/ Way1_main_report
  \/ Way1_main_cleanup
  \/ Way1_release_stop
  \/ Way1_release_join
  \/ Way1_release_close
  \/ Way1_release_clear

\* How far the finally clause has come: the report loop, then five positions
\* per streamer of the release loop, then the end.
ShutdownRank ==
  CASE pc = "w_report"  -> idx
    [] pc = "w_cleanup" -> ncfg + 2 + 5 * (idx - 1)
    [] pc = "w_rel"     -> ncfg + 2 + 5 * (idx - 1) + 1
    [] pc = "w_join"    -> ncfg + 2 + 5 * (idx - 1) + 2
    [] pc = "w_close"   -> ncfg + 2 + 5 * (idx - 1) + 3
    [] pc = "w_clear"   -> ncfg + 2 + 5 * (idx - 1) + 4
    [] OTHER            -> ncfg + 2 + 5 * (ncfg + 1)

\* C14: the shutdown of the threaded script completes whatever its capture
\* threads do.  In every state of the finally clause main has a step it can
\* take, also while a capture thread sits in a decoder read; every step main
\* takes there moves it strictly forward in a bounded order that ends at the
\* end of main; and no step of a capture thread moves it back.
C14_ShutdownAlwaysAdvances ==
  /\ [](prog = "way1" /\ pc \in ShutdownPcs => ENABLED MainShutdownStep)
  /\ [][prog = "way1" /\ pc \in ShutdownPcs
          => /\ pc' \in ShutdownPcs \cup {"w_done"}
             /\ ShutdownRank' >= ShutdownRank
             /\ <<pc, idx>>' # <<pc, idx>> => ShutdownRank' > ShutdownRank
             /\ ShutdownRank' <= ncfg + 2 + 5 * (ncfg + 1)]_vars

\* main is through while a capture thread it released is still inside a
\* decoder read: the join timed out and the thread was abandoned.
C14_DoneWithThreadInRead ==
  /\ prog = "way1" /\ pc = "w_done"
  /\ \E s \in Configured : \E t \in 1..Len(thr[s]) : thr[s][t].pc = "read"

\* The startup connect of cur has had a failed attempt and is still going on.
Retrying ==
  /\ ctx = "startup" /\ prog \in {"multi", "way1"}
  /\ connRet[cur] = "running" /\ attempt >= 1

\* C15: while the startup connect of one source is between its attempts, the
\* connect of any configured source that has not been tried yet can begin:
\* the script has a step that starts it.
C15_OthersStartDuringRetry ==
  \A s \in Configured :
    Retrying /\ connRet[s] = "none"
      => ENABLED (Next /\ connRet'[s] = "running")

\* The positions of main of the threaded script in its poll loop.
PollPcs == {"w_while", "w_for", "w_rd1", "w_rd2", "w_waitkey"}

\* C16: however the poll loop of the threaded script ends (time is up, 'q',
\* KeyboardInterrupt), main goes to its report, and once the report loop is
\* through every configured source has its line: the FPS line with the frame
\* count when its connect succeeded, the "connection failed" line when it
\* never did.  Nothing is reported before the poll loop has ended.
C16_EverySourceReported ==
  /\ [](prog = "way1" /\ pc \in (ShutdownPcs \ {"w_report"}) \cup {"w_done"}
          => \A s \in Configured :
               report[s] = IF connRet[s] = "true" THEN "fps" ELSE "failed")
  /\ [](prog = "way1" /\ pc \notin ShutdownPcs \cup {"w_done"}
          => \A s \in Configured : report[s] = "none")
  /\ [][prog = "way1" /\ pc \in PollPcs /\ pc' \notin PollPcs
          => pc' = "w_report" /\ idx' = 1]_vars

\* main is through and has reported a source that connected and had frames
\* counted.
C16_ReportedWithFrames ==
  /\ prog = "way1" /\ pc = "w_done"
  /\ \E s \in Configured : report[s] = "fps" /\ frame_count[s] >= 1

\* The positions of the three mains inside their poll loops.
AnyPollPcs == PollPcs \cup {"m_poll", "m_waitkey", "v_for", "v_read", "v_show", "v_waitkey"}

\* C17: a script whose list of sources is empty never enters its poll loop.
C17_EmptyConfigNeverPolls == ncfg = 0 => pc \notin AnyPollPcs

\* Thread t of source s is about to enter self.cap.read().
AtCall(s, t) == thr[s][t].pc \in {"call", "u_call"}

\* C18: when a capture thread of either threaded script evaluates self.cap
\* and enters its read(), self.cap is a handle, and one that release() or
\* stop() has not closed.
C18_ReadsOnlyOpenHandles ==
  [][\A s \in Configured : \A t \in 1..Len(thr[s]) :
       AtCall(s, t) /\ thr'[s][t].pc # thr[s][t].pc
         => cap[s] # None /\ IsOpen(hcl[s], cap[s])]_vars

\* The client's last call on its connection object has returned and the
\* object is in the state release() / stop() leaves: the stop flag set.
Released == pc \in {"c_idle", "s_idle"} /\ calls > 0 /\ stopped[cur]

\* The positions of a caller inside release() and inside stop().
ReleasePcs == {"w_rel", "w_join", "w_close", "w_clear", "v_stop", "v_close"}

\* C19 as stated: once release() (stop() of VideoStream) has returned, the
\* slot of the connection holds no frame and no timestamp.
C19_SlotClearedByRelease ==
  Released => latest_frame[cur] = None /\ latest_timestamp[cur] = None

\* C19 as the code has it: no step of release() or stop() writes the slot, so
\* a connection that has had a frame published still holds a frame after the
\* call has returned.
C19_ReleaseKeepsSlot ==
  /\ [][pc' # pc /\ pc \in ReleasePcs
          => UNCHANGED <<latest_frame, latest_timestamp>>]_vars
  /\ [](Released /\ FirstPublished(cur) => latest_frame[cur] # None)

\* release() has returned, the handle is gone, and the slot still holds the
\* frame and the time of the last publish.
C19_StaleFrameAfterRelease ==
  /\ prog = "conn" /\ Released /\ cap[cur] = None
  /\ latest_frame[cur] # None /\ latest_timestamp[cur] # None

\* The caller is inside the retry loop of connect_server / __connect_server
\* and takes a step that is not the success of an attempt.
FailingConnectStep ==
  /\ <<pc, attempt>>' # <<pc, attempt>>
  /\ pc \in {"w_connect", "m_connect"}
  /\ pc' \notin {"w_assign", "m_second"}

\* C20: a connect call that fails consists of failing attempts only, and none
\* of them writes the connection: self.cap, the thread, the stop flag, the
\* slot, first_start_time and frame_count are after each such step what they
\* were before it; so a source whose startup connect failed is as
\* constructed.  first_start_time, once set, is never written again, and the
\* first successful connect sets it.
C20_FailedConnectChangesNothing ==
  /\ [][FailingConnectStep
          => UNCHANGED <<cap, thread, stopped, latest_frame, latest_timestamp,
                         fst, frame_count>>]_vars
  /\ [](\A s \in Configured :
          ctx = "startup" /\ connRet[s] = "false"
            => /\ cap[s] = None /\ thread[s] = None /\ ~stopped[s]
               /\ latest_frame[s] = None /\ latest_timestamp[s] = None
               /\ fst[s] = None /\ frame_count[s] = 0)
  /\ [][\A s \in Configured : fst[s] # None => fst'[s] = fst[s]]_vars
  /\ [][pc' = "w_seed1" /\ pc = "w_assign" => fst'[cur] # None]_vars

\* A connect call on a connection that is connected and running has failed
\* and returned, and the connection still has its handle, its thread, its
\* frame and its first_start_time.
C20_FailedConnectOnLiveConnection ==
  /\ prog = "conn" /\ pc = "c_idle" /\ connRet[cur] = "false"
  /\ cap[cur] # None /\ thread[cur] # None /\ ~stopped[cur]
  /\ latest_frame[cur] # None /\ fst[cur] # None
====
